---- MODULE Spec2Model ----
(***************************************************************************)
(* Ingredient normalisation and corpus frequency filter of main.ipynb.     *)
(*                                                                         *)
(* A Python str is a tuple of one-character strings, so that the regex,    *)
(* split, lower, strip and ordering steps are computed character by        *)
(* character.  A pandas DataFrame is a sequence of rows; a row keeps the   *)
(* index label it had when the frame was built.                            *)
(***************************************************************************)
EXTENDS Integers, Sequences, FiniteSets, TLC

VARIABLES
    Lexicon,            \* stopwords, word_synonyms, phrase_synonyms (loaded files)
    recipe_df,          \* DataFrame of the recipes
    reduced_df,         \* copy of recipe_df reduced by the corpus filter
    counts,             \* value_counts of the exploded cleaned_ingredients
    rare_ingredients,   \* index of the counts <= MIN_FREQUENCY
    rerun,              \* clean_ingredients applied to a row's own cleaned_ingredients
    min_ingredient,     \* the value MIN_INGREDIENT is set to
    max_ingredient,     \* the value MAX_INGREDIENT is set to
    pc                  \* the notebook cell to run next

vars == <<Lexicon, recipe_df, reduced_df, counts, rare_ingredients, rerun,
          min_ingredient, max_ingredient, pc>>

-----------------------------------------------------------------------------
(* Characters and Python str primitives                                    *)

\* The characters of the model in code point order (Python compares str by code point).
Alphabet ==
    <<" ", "(", ")", "2", "B", "L", "O", "R",
      "a", "b", "c", "d", "e", "f", "g", "h", "i", "k", "l", "m", "n",
      "o", "p", "r", "s", "t", "u", "y">>

Chars == {Alphabet[i] : i \in 1..Len(Alphabet)}

Ord == [c \in Chars |-> CHOOSE i \in 1..Len(Alphabet) : Alphabet[i] = c]

UpperCase == {"B", "L", "O", "R"}

LowerCase == {"a", "b", "c", "d", "e", "f", "g", "h", "i", "k", "l", "m", "n",
              "o", "p", "r", "s", "t", "u", "y"}

\* str.lower() on one character
LowerChar(c) ==
    CASE c = "B" -> "b"
      [] c = "L" -> "l"
      [] c = "O" -> "o"
      [] c = "R" -> "r"
      [] OTHER -> c

\* str.lower()
Lower(s) == [i \in 1..Len(s) |-> LowerChar(s[i])]

\* str.isspace() on one character
IsSpace(c) == c = " "

\* index of the first non-space character at or after i, Len(s)+1 if none
RECURSIVE SkipSpaces(_, _)
SkipSpaces(s, i) ==
    IF i > Len(s) \/ ~IsSpace(s[i]) THEN i ELSE SkipSpaces(s, i + 1)

\* index of the first space at or after i, Len(s)+1 if none
RECURSIVE SkipWord(_, _)
SkipWord(s, i) ==
    IF i > Len(s) \/ IsSpace(s[i]) THEN i ELSE SkipWord(s, i + 1)

\* index of the last non-space character at or before i, 0 if none
RECURSIVE LastNonSpace(_, _)
LastNonSpace(s, i) ==
    IF i = 0 \/ ~IsSpace(s[i]) THEN i ELSE LastNonSpace(s, i - 1)

\* str.strip()
Strip(s) ==
    LET a == SkipSpaces(s, 1)
        b == LastNonSpace(s, Len(s))
    IN  IF a > b THEN <<>> ELSE SubSeq(s, a, b)

\* str.split(): the maximal runs of non-space characters, in order
RECURSIVE SplitFrom(_, _)
SplitFrom(s, i) ==
    LET a == SkipSpaces(s, i)
        b == SkipWord(s, a)
    IN  IF a > Len(s) THEN <<>>
        ELSE <<SubSeq(s, a, b - 1)>> \o SplitFrom(s, b)

Split(s) == SplitFrom(s, 1)

\* " ".join(words)
RECURSIVE Join(_)
Join(words) ==
    IF words = <<>> THEN <<>>
    ELSE IF Len(words) = 1 THEN words[1]
    ELSE words[1] \o <<" ">> \o Join(Tail(words))

\* whether pat occurs in s at index i
OccursAt(s, pat, i) ==
    /\ i + Len(pat) - 1 <= Len(s)
    /\ SubSeq(s, i, i + Len(pat) - 1) = pat

\* str.find(pat, i), 1-based; 0 if pat does not occur at or after i
RECURSIVE Find(_, _, _)
Find(s, pat, i) ==
    IF i + Len(pat) - 1 > Len(s) THEN 0
    ELSE IF OccursAt(s, pat, i) THEN i
    ELSE Find(s, pat, i + 1)

\* Python's str < str: lexicographic by code point, a proper prefix is smaller
RECURSIVE StrLess(_, _)
StrLess(s, t) ==
    IF t = <<>> THEN FALSE
    ELSE IF s = <<>> THEN TRUE
    ELSE IF s[1] # t[1] THEN Ord[s[1]] < Ord[t[1]]
    ELSE StrLess(Tail(s), Tail(t))

-----------------------------------------------------------------------------
(* Words of the modelled vocabulary                                        *)

w_2      == <<"2">>
w_cup    == <<"c", "u", "p">>
w_egg    == <<"e", "g", "g">>
w_eggs   == <<"e", "g", "g", "s">>
w_fish   == <<"f", "i", "s", "h">>
w_fried  == <<"f", "r", "i", "e", "d">>
w_fry    == <<"f", "r", "y">>
w_ham    == <<"h", "a", "m">>
w_lemon  == <<"l", "e", "m", "o", "n">>
w_lime   == <<"l", "i", "m", "e">>
w_limes  == <<"l", "i", "m", "e", "s">>
w_the    == <<"t", "h", "e">>
w_baking == <<"b", "a", "k", "i", "n", "g">>
w_bake   == <<"b", "a", "k", "e">>
w_or     == <<"o", "r">>
w_beef   == <<"b", "e", "e", "f">>
w_milk   == <<"m", "i", "l", "k">>
w_nut    == <<"n", "u", "t">>
w_pork   == <<"p", "o", "r", "k">>
w_rice   == <<"r", "i", "c", "e">>
w_yam    == <<"y", "a", "m">>
w_oil    == <<"o", "i", "l">>
w_salt   == <<"s", "a", "l", "t">>
w_onion  == <<"o", "n", "i", "o", "n">>
w_sugar  == <<"s", "u", "g", "a", "r">>
w_pepper == <<"p", "e", "p", "p", "e", "r">>
w_garlic == <<"g", "a", "r", "l", "i", "c">>
w_top    == <<"t", "o", "p">>

-----------------------------------------------------------------------------
(* The tagger nlp: tokens with text, lemma_, pos_, is_alpha, is_stop.      *)
(* The statistical model is replaced by a table over the vocabulary: a     *)
(* token is a maximal run of non-space characters, a parenthesis being a   *)
(* token of its own; a word the table does not list is a noun and its own  *)
(* lemma.                                                                  *)

\* the text with every parenthesis set off by spaces
RECURSIVE PadPunct(_)
PadPunct(s) ==
    IF s = <<>> THEN <<>>
    ELSE IF s[1] \in {"(", ")"} THEN <<" ", s[1], " ">> \o PadPunct(Tail(s))
    ELSE <<s[1]>> \o PadPunct(Tail(s))

\* the texts of the tokens of nlp(text), in order
Tokenize(text) == Split(PadPunct(text))

\* token.is_alpha
IsAlpha(w) == w # <<>> /\ \A i \in 1..Len(w) : w[i] \in LowerCase \cup UpperCase

\* token.is_stop: the generic stop words of the language model
IsStop(w) == w \in {w_the, w_or, w_top}

\* token.lemma_
Lemma(w) ==
    CASE w = w_limes  -> w_lime
      [] w = w_eggs   -> w_egg
      [] w = w_fried  -> w_fry
      [] w = w_baking -> w_bake
      [] OTHER        -> w

\* token.pos_ as the model assigns it
Pos(w) ==
    CASE ~IsAlpha(w)  -> "NUM"
      [] w = w_fried  -> "VERB"
      [] w = w_baking -> "VERB"
      [] w = w_the    -> "DET"
      [] w = w_or     -> "CCONJ"
      [] w = w_ham    -> "PROPN"
      [] OTHER        -> "NOUN"

\* the words whose tag lemmatize_valid_nouns overrides
outliers == {w_baking}

\* token.pos_ after the override of lemmatize_valid_nouns
CorrectedPos(w) == IF w \in outliers THEN "NOUN" ELSE Pos(w)

\* the test of lemmatize_valid_nouns on one token
ValidNoun(w) == IsAlpha(w) /\ ~IsStop(w) /\ CorrectedPos(w) \in {"NOUN", "PROPN"}

RECURSIVE ValidLemmas(_)
ValidLemmas(tokens) ==
    IF tokens = <<>> THEN <<>>
    ELSE (IF ValidNoun(tokens[1]) THEN <<Lemma(tokens[1])>> ELSE <<>>)
         \o ValidLemmas(Tail(tokens))

lemmatize_valid_nouns(ingredient) == Join(ValidLemmas(Tokenize(ingredient)))

-----------------------------------------------------------------------------
(* The dictionary stages                                                   *)

\* a value that is a Python str, and one that is a Python list of str
PyStr(s)  == [list |-> FALSE, str |-> s, items |-> <<>>]
PyList(l) == [list |-> TRUE, str |-> <<>>, items |-> l]

\* dict.get(key, default)
Get(dict, key, default) == IF key \in DOMAIN dict THEN dict[key] ELSE default

RECURSIVE SelectWords(_, _)
SelectWords(words, stop) ==
    IF words = <<>> THEN <<>>
    ELSE (IF words[1] \in stop THEN <<>> ELSE <<words[1]>>)
         \o SelectWords(Tail(words), stop)

filter_stopwords(L, text) == Join(SelectWords(Split(text), L.stopwords))

handle_word_synonym(L, ingredient) ==
    LET words == Split(ingredient)
    IN  Join([i \in 1..Len(words) |-> Get(L.word_synonyms, words[i], words[i])])

\* the loop of remove_duplicates: unique after the words from index i on
RECURSIVE UniqueFrom(_, _, _)
UniqueFrom(words, unique, seen) ==
    IF words = <<>> THEN unique
    ELSE IF words[1] \in seen THEN UniqueFrom(Tail(words), unique, seen)
    ELSE UniqueFrom(Tail(words), Append(unique, words[1]), seen \cup {words[1]})

Reverse(xs) == [i \in 1..Len(xs) |-> xs[Len(xs) + 1 - i]]

\* remove_duplicates putting each new word in front (unique.insert(0, ingredient))
remove_duplicates_reversed(text) == Join(Reverse(UniqueFrom(Split(text), <<>>, {})))

\* remove_duplicates with seen holding the last word only
RECURSIVE AdjacentFrom(_, _, _)
AdjacentFrom(words, unique, seen) ==
    IF words = <<>> THEN unique
    ELSE IF words[1] \in seen THEN AdjacentFrom(Tail(words), unique, seen)
    ELSE AdjacentFrom(Tail(words), Append(unique, words[1]), {words[1]})

remove_duplicates_adjacent(text) == Join(AdjacentFrom(Split(text), <<>>, {}))

remove_duplicates(text) == Join(UniqueFrom(Split(text), <<>>, {}))

handle_phrase_synonym(L, ingredient) ==
    Get(L.phrase_synonyms, ingredient, PyStr(ingredient))

-----------------------------------------------------------------------------
(* preprocess_ingredient                                                   *)

\* re.sub(r"\([^)]*\)", "", s): each "(" up to the first ")" after it is cut,
\* left to right; a "(" with no ")" after it stays
RECURSIVE NoParenthesis(_)
NoParenthesis(s) ==
    LET open == Find(s, <<"(">>, 1)
        close == IF open = 0 THEN 0 ELSE Find(s, <<")">>, open + 1)
    IN  IF close = 0 THEN s
        ELSE SubSeq(s, 1, open - 1) \o NoParenthesis(SubSeq(s, close + 1, Len(s)))

\* s.split(" or ")[0]
FirstOption(s) ==
    LET at == Find(s, <<" ", "o", "r", " ">>, 1)
    IN  IF at = 0 THEN s ELSE SubSeq(s, 1, at - 1)

\* the local unique of preprocess_ingredient
Unique(L, ingredient) ==
    LET no_parenthesis == NoParenthesis(ingredient)
        first_option   == FirstOption(no_parenthesis)
        formatted      == Strip(Lower(first_option))
        lemmatized     == lemmatize_valid_nouns(formatted)
        filtered       == filter_stopwords(L, lemmatized)
        word_synonym   == handle_word_synonym(L, filtered)
    IN  remove_duplicates(word_synonym)

preprocess_ingredient(L, ingredient) ==
    handle_phrase_synonym(L, Unique(L, ingredient))

-----------------------------------------------------------------------------
(* clean_ingredients                                                       *)

\* the loop of clean_ingredients: extend with a list, append a str
RECURSIVE Accumulate(_, _, _)
Accumulate(L, cleaned_ingredients, ingredients) ==
    IF ingredients = <<>> THEN cleaned_ingredients
    ELSE LET cleaned == preprocess_ingredient(L, ingredients[1])
         IN  Accumulate(L,
                 IF cleaned.list THEN cleaned_ingredients \o cleaned.items
                 ELSE Append(cleaned_ingredients, cleaned.str),
                 Tail(ingredients))

\* filter(None, xs): the items that are not the empty str
FilterNone(xs) == SelectSeq(xs, LAMBDA x : x # <<>>)

\* set(xs)
SetOf(xs) == {xs[i] : i \in 1..Len(xs)}

\* sorted(S): ascending by Python's str order
RECURSIVE Sorted(_)
Sorted(S) ==
    IF S = {} THEN <<>>
    ELSE LET least == CHOOSE x \in S : \A y \in S \ {x} : StrLess(x, y)
         IN  <<least>> \o Sorted(S \ {least})

\* insertion of x into an ascending list, equal items kept
RECURSIVE Insert(_, _)
Insert(xs, x) ==
    IF xs = <<>> THEN <<x>>
    ELSE IF StrLess(x, xs[1]) THEN <<x>> \o xs
    ELSE <<xs[1]>> \o Insert(Tail(xs), x)

RECURSIVE SortedList(_)
SortedList(xs) ==
    IF xs = <<>> THEN <<>> ELSE Insert(SortedList(Tail(xs)), xs[1])

\* clean_ingredients returning the accumulated list as it is (no set, no sorted)
Finish_unsorted(cleaned_ingredients) == FilterNone(cleaned_ingredients)

\* clean_ingredients sorting the list without set(): duplicates stay
Finish_noset(cleaned_ingredients) == SortedList(FilterNone(cleaned_ingredients))

\* list(sorted(set(filter(None, cleaned_ingredients))))
Finish(cleaned_ingredients) == Sorted(SetOf(FilterNone(cleaned_ingredients)))

\* the explode of a frame that lacks its last row
RECURSIVE Explode_partial(_)
Explode_partial(df) ==
    IF Len(df) <= 1 THEN <<>>
    ELSE df[1].cleaned_ingredients \o Explode_partial(Tail(df))

\* Series.explode(): the items of every row's list, in row order (the NaN an empty
\* list explodes to is left out: value_counts drops it)
RECURSIVE Explode(_)
Explode(df) ==
    IF df = <<>> THEN <<>>
    ELSE df[1].cleaned_ingredients \o Explode(Tail(df))

\* clean_ingredients with its list kept between calls: every ingredient appended for
\* the rows cleaned before is still in it
clean_ingredients_shared(L, ingredients) ==
    Finish(Accumulate(L, Explode(recipe_df), ingredients))

clean_ingredients(L, ingredients) == Finish(Accumulate(L, <<>>, ingredients))

-----------------------------------------------------------------------------
(* The corpus filter                                                       *)

ingredients_to_remove == {w_oil, w_salt, w_onion, w_sugar, w_pepper, w_garlic}

MIN_FREQUENCY == 5

MIN_INGREDIENT == 4

MAX_INGREDIENT == 9

\* the first remove_rare_ingredients with an empty ingredients_to_remove
remove_common_ingredients_none(ingredients) ==
    SelectSeq(ingredients, LAMBDA i : i \notin {})

\* the first remove_rare_ingredients: the ingredients not in ingredients_to_remove
remove_common_ingredients(ingredients) ==
    SelectSeq(ingredients, LAMBDA i : i \notin ingredients_to_remove)

\* the second remove_rare_ingredients: the ingredients not in rare_ingredients
remove_rare_ingredients(rare, ingredients) ==
    SelectSeq(ingredients, LAMBDA i : i \notin rare)

\* Series.value_counts(): each distinct value with the number of its occurrences
ValueCounts(xs) ==
    [v \in SetOf(xs) |-> Cardinality({i \in 1..Len(xs) : xs[i] = v})]

\* counts[counts < MIN_FREQUENCY].index
RareIndex_strict(cnt) == {v \in DOMAIN cnt : cnt[v] < MIN_FREQUENCY}

\* counts[counts <= MIN_FREQUENCY + 1].index
RareIndex_above(cnt) == {v \in DOMAIN cnt : cnt[v] <= MIN_FREQUENCY + 1}

\* counts[counts <= MIN_FREQUENCY].index
RareIndex(cnt) == {v \in DOMAIN cnt : cnt[v] <= MIN_FREQUENCY}

\* (counts > MIN_INGREDIENT) & (counts < MAX_INGREDIENT) for one row
InSizeRange_strict(row) ==
    /\ Len(row.cleaned_ingredients) > min_ingredient
    /\ Len(row.cleaned_ingredients) < max_ingredient

\* (counts >= MIN_INGREDIENT) & (counts <= MAX_INGREDIENT) for one row
InSizeRange(row) ==
    /\ Len(row.cleaned_ingredients) >= min_ingredient
    /\ Len(row.cleaned_ingredients) <= max_ingredient

-----------------------------------------------------------------------------
(* The recipes and dictionaries the notebook is run on                     *)

\* an "ingredients" cell: NaN for a record without the key, else the list
Missing    == [na |-> TRUE, val |-> <<>>]
Present(l) == [na |-> FALSE, val |-> l]

s_Limes    == <<"L", "i", "m", "e", "s">>
s_2cupRice == <<"2", " ", "c", "u", "p", " ", "r", "i", "c", "e">>
s_eggsBig  == <<"e", "g", "g", "s", " ", "(", "B", "i", "g", ")">>

\* the ingredient lists a recipe of the corpus is drawn from
Templates ==
    << Present(<<w_yam, w_salt, s_Limes, w_lemon, s_2cupRice, s_eggsBig,
                 w_beef, w_fish, w_ham, w_milk, w_nut, w_pork>>),
       Present(<<w_salt, w_pork, w_nut, w_milk, w_ham, w_fish, w_beef, s_eggsBig,
                 s_2cupRice, s_Limes, w_baking>>),
       Present(<<w_oil, w_ham, w_fish, w_eggs, w_beef>>),
       Present(<<w_beef, w_yam, w_fish>>),
       Present(<<>>),
       Missing >>

\* the number of recipes of the corpus
NRecipes == 8

\* the corpora up to the order of their recipes: recipe i is Templates[c[i]]
Corpora ==
    {c \in [1..NRecipes -> 1..Len(Templates)] :
        \A i \in 1..(NRecipes - 1) : c[i] <= c[i + 1]}

\* pd.DataFrame(recipes)
DataFrame(c) ==
    [i \in 1..Len(c) |->
        [name |-> i, ingredients |-> Templates[c[i]],
         cleaned |-> FALSE, cleaned_ingredients |-> <<>>]]

\* the dictionaries of the corpus run
CorpusLexicon ==
    [stopwords |-> {w_cup},
     word_synonyms |-> (w_lemon :> w_lime),
     phrase_synonyms |-> <<>>]

-----------------------------------------------------------------------------
(* The notebook, cell by cell                                              *)

Init ==
    /\ Lexicon = CorpusLexicon
    /\ \E c \in Corpora : recipe_df = DataFrame(c)
    /\ reduced_df = <<>>
    /\ counts = <<>>
    /\ rare_ingredients = {}
    /\ rerun = <<>>
    /\ min_ingredient = MIN_INGREDIENT
    /\ max_ingredient = MAX_INGREDIENT
    /\ pc = "dropna"

\* recipe_df.dropna(subset=["ingredients"])
DropNa(df) == SelectSeq(df, LAMBDA row : ~row.ingredients.na)

DropMissing ==
    /\ pc = "dropna"
    /\ recipe_df' = DropNa(recipe_df)
    /\ pc' = "clean"
    /\ UNCHANGED <<Lexicon, reduced_df, counts, rare_ingredients, rerun,
                 min_ingredient, max_ingredient>>

\* one row after recipe_df["ingredients"].progress_apply(clean_ingredients)
CleanedRow(L, row) ==
    [row EXCEPT !.cleaned = TRUE,
                !.cleaned_ingredients = clean_ingredients(L, row.ingredients.val)]

CleanColumn ==
    /\ pc = "clean"
    /\ recipe_df' = [i \in 1..Len(recipe_df) |-> CleanedRow(Lexicon, recipe_df[i])]
    /\ pc' = "common"
    /\ UNCHANGED <<Lexicon, reduced_df, counts, rare_ingredients, rerun,
                 min_ingredient, max_ingredient>>

\* reduced_df = recipe_df.copy(), then the first remove_rare_ingredients applied
RemoveCommon ==
    /\ pc = "common"
    /\ reduced_df' =
          [i \in 1..Len(recipe_df) |->
              [recipe_df[i] EXCEPT !.cleaned_ingredients =
                  remove_common_ingredients(recipe_df[i].cleaned_ingredients)]]
    /\ pc' = "count"
    /\ UNCHANGED <<Lexicon, recipe_df, counts, rare_ingredients, rerun,
                 min_ingredient, max_ingredient>>

\* counts and rare_ingredients, taken over recipe_df
CountRare ==
    /\ pc = "count"
    /\ counts' = ValueCounts(Explode(recipe_df))
    /\ rare_ingredients' = RareIndex(counts')
    /\ pc' = "rare"
    /\ UNCHANGED <<Lexicon, recipe_df, reduced_df, rerun,
                 min_ingredient, max_ingredient>>

\* the second remove_rare_ingredients applied to reduced_df
RemoveRare ==
    /\ pc = "rare"
    /\ reduced_df' =
          [i \in 1..Len(reduced_df) |->
              [reduced_df[i] EXCEPT !.cleaned_ingredients =
                  remove_rare_ingredients(rare_ingredients,
                                          reduced_df[i].cleaned_ingredients)]]
    /\ pc' = "size"
    /\ UNCHANGED <<Lexicon, recipe_df, counts, rare_ingredients, rerun,
                 min_ingredient, max_ingredient>>

\* reduced_df[(counts >= MIN_INGREDIENT) & (counts <= MAX_INGREDIENT)]
SizeFilter ==
    /\ pc = "size"
    /\ reduced_df' = SelectSeq(reduced_df, InSizeRange)
    /\ pc' = "done"
    /\ UNCHANGED <<Lexicon, recipe_df, counts, rare_ingredients, rerun,
                 min_ingredient, max_ingredient>>

Next ==
    \/ DropMissing
    \/ CleanColumn
    \/ RemoveCommon
    \/ CountRare
    \/ RemoveRare
    \/ SizeFilter

Spec == Init /\ [][Next]_vars

-----------------------------------------------------------------------------
(* Properties of the corpus run                                            *)

StrictlyAscending(xs) == \A i \in 1..(Len(xs) - 1) : StrLess(xs[i], xs[i + 1])

Rows(df) == {df[i] : i \in 1..Len(df)}

\* the row of recipe_df a row of reduced_df was copied from
Source(row) == CHOOSE r \in Rows(recipe_df) : r.name = row.name

\* the number of recipes of recipe_df whose cleaned_ingredients contains ing
RecipeCount(ing) ==
    Cardinality({i \in 1..Len(recipe_df) :
                    ing \in SetOf(recipe_df[i].cleaned_ingredients)})

\* every ingredient of the cleaned corpus
AllIngredients == UNION {SetOf(r.cleaned_ingredients) : r \in Rows(recipe_df)}

PhaseBDone == pc \in {"size", "done"}

\* C1: every recipe's cleaned_ingredients is in strictly ascending order (so without
\* duplicates), as clean_ingredients leaves it and after the removal of the
\* denylisted and of the rare ingredients.
C1_Sorted ==
    /\ \A r \in Rows(recipe_df) : StrictlyAscending(r.cleaned_ingredients)
    /\ \A r \in Rows(reduced_df) : StrictlyAscending(r.cleaned_ingredients)

\* a recipe authored out of order, with two lines for one ingredient, that lost a
\* denylisted ingredient and a rare one and still holds several
C1_Witness ==
    /\ pc = "size"
    /\ \E r \in Rows(reduced_df) :
          /\ ~StrictlyAscending(r.ingredients.val)
          /\ Len(Accumulate(Lexicon, <<>>, r.ingredients.val))
                > Len(Source(r).cleaned_ingredients)
          /\ Len(r.cleaned_ingredients) >= 2
          /\ \E i \in SetOf(Source(r).cleaned_ingredients) :
                i \in ingredients_to_remove
          /\ \E i \in SetOf(Source(r).cleaned_ingredients) :
                i \in rare_ingredients /\ i \notin ingredients_to_remove

\* C5: after Phase B every ingredient left in a recipe is in more than MIN_FREQUENCY
\* recipes of the unfiltered corpus and is not denylisted; one in exactly
\* MIN_FREQUENCY recipes is gone from every recipe.
C5_FrequencyMonotone ==
    PhaseBDone =>
        \A r \in Rows(reduced_df) : \A ing \in SetOf(r.cleaned_ingredients) :
            /\ RecipeCount(ing) > MIN_FREQUENCY
            /\ ing \notin ingredients_to_remove

\* Phase B has run on a corpus with an ingredient in exactly MIN_FREQUENCY recipes
\* and a denylisted ingredient in more than MIN_FREQUENCY recipes
C5_Witness ==
    /\ pc = "size"
    /\ \E ing \in AllIngredients :
          RecipeCount(ing) = MIN_FREQUENCY /\ ing \notin ingredients_to_remove
    /\ \E ing \in AllIngredients :
          RecipeCount(ing) > MIN_FREQUENCY /\ ing \in ingredients_to_remove
    /\ \E r \in Rows(reduced_df) : r.cleaned_ingredients # <<>>

\* C6: Phase B removes nothing else: an ingredient in more than MIN_FREQUENCY recipes
\* that is not denylisted stays in every recipe that contained it.
C6_KeepsFrequent ==
    PhaseBDone =>
        \A r \in Rows(reduced_df) : \A ing \in SetOf(Source(r).cleaned_ingredients) :
            (RecipeCount(ing) > MIN_FREQUENCY /\ ing \notin ingredients_to_remove)
                => ing \in SetOf(r.cleaned_ingredients)

\* Phase B has run and an ingredient in exactly MIN_FREQUENCY + 1 recipes is kept
C6_Witness ==
    /\ pc = "size"
    /\ \E r \in Rows(reduced_df) : \E ing \in SetOf(r.cleaned_ingredients) :
          RecipeCount(ing) = MIN_FREQUENCY + 1

\* C7: Phase C keeps exactly the recipes whose cleaned_ingredients, as Phase B left
\* it, has between MIN_INGREDIENT and MAX_INGREDIENT items, both inclusive, and
\* keeps them unchanged.
C7_SizeBound ==
    [][pc = "size" =>
          /\ \A r \in Rows(reduced_df) :
                (r \in Rows(reduced_df')) <=>
                    (MIN_INGREDIENT <= Len(r.cleaned_ingredients)
                        /\ Len(r.cleaned_ingredients) <= MAX_INGREDIENT)
          /\ Rows(reduced_df') \subseteq Rows(reduced_df)]_vars

\* the result of Phase B for a row of recipe_df
PhaseB(row) ==
    remove_rare_ingredients(rare_ingredients,
                            remove_common_ingredients(row.cleaned_ingredients))

Survives(row) == \E r \in Rows(reduced_df) : r.name = row.name

\* Phase C has run on recipes of MIN_INGREDIENT - 1, MIN_INGREDIENT, MAX_INGREDIENT
\* and MAX_INGREDIENT + 1 ingredients: the two at the bounds survive, the others not
C7_Witness ==
    /\ pc = "done"
    /\ \E r \in Rows(recipe_df) : Len(PhaseB(r)) = MIN_INGREDIENT - 1 /\ ~Survives(r)
    /\ \E r \in Rows(recipe_df) : Len(PhaseB(r)) = MIN_INGREDIENT /\ Survives(r)
    /\ \E r \in Rows(recipe_df) : Len(PhaseB(r)) = MAX_INGREDIENT /\ Survives(r)
    /\ \E r \in Rows(recipe_df) : Len(PhaseB(r)) = MAX_INGREDIENT + 1 /\ ~Survives(r)

\* the table Phase B consults covers the whole corpus
CountsComplete ==
    /\ DOMAIN counts = AllIngredients
    /\ \A ing \in AllIngredients : counts[ing] = RecipeCount(ing)
    /\ rare_ingredients = {ing \in AllIngredients : RecipeCount(ing) <= MIN_FREQUENCY}

\* a row of reduced_df has lost an ingredient that is not denylisted
RareRemoved ==
    \E r \in Rows(reduced_df) : \E ing \in SetOf(Source(r).cleaned_ingredients) :
        ing \notin ingredients_to_remove /\ ing \notin SetOf(r.cleaned_ingredients)

C9_CountsRecipes ==
    pc \in {"rare", "size", "done"} =>
        /\ DOMAIN counts = AllIngredients
        /\ \A ing \in DOMAIN counts : counts[ing] = RecipeCount(ing)

\* the ingredient lines of a recipe that yield one ingredient twice
Repeats(row) ==
    LET acc == Accumulate(Lexicon, <<>>, row.ingredients.val)
    IN  \E i, j \in 1..Len(acc) : i < j /\ acc[i] = acc[j] /\ acc[i] # <<>>

\* the table is built over a corpus where a recipe lists one ingredient on two lines
C9_Witness ==
    /\ pc = "rare"
    /\ \E r \in Rows(recipe_df) : Repeats(r)
    /\ \E ing \in DOMAIN counts : counts[ing] >= 2

\* C10: every recipe that enters clean_ingredients has at least one raw ingredient.
C10_NonEmptyInput ==
    pc = "clean" =>
        \A r \in Rows(recipe_df) : ~r.ingredients.na /\ Len(r.ingredients.val) >= 1

-----------------------------------------------------------------------------
(* The aggregation of a few recipes under several dictionaries: the rows   *)
(* of progress_apply(clean_ingredients) are cleaned one call at a time, in *)
(* any order, and clean_ingredients is run again on a row's own result.    *)

s_LimesOrLemon == <<"L", "i", "m", "e", "s", " ", "(", "b", "i", "g", ")", " ",
                    "o", "r", " ", "l", "e", "m", "o", "n">>
s_cupLimes     == <<"2", " ", "c", "u", "p", " ", "l", "i", "m", "e", " ",
                    "l", "i", "m", "e", "s">>
s_friedFish    == <<"f", "r", "i", "e", "d", " ", "f", "i", "s", "h">>
s_hamEggs      == <<"h", "a", "m", " ", "e", "g", "g", "s">>
s_the2         == <<"t", "h", "e", " ", "2">>
s_hamEgg       == <<"h", "a", "m", " ", "e", "g", "g">>
s_fishLime     == <<"f", "i", "s", "h", " ", "l", "i", "m", "e">>
s_blank        == <<" ">>

\* the ingredient lists a recipe is drawn from
AggRawLists ==
    { <<s_LimesOrLemon>>,
      <<w_lemon, s_cupLimes>>,
      <<s_hamEggs>>,
      <<s_friedFish, s_LimesOrLemon>>,
      <<s_the2, s_friedFish>>,
      <<s_hamEggs, w_lemon, s_hamEggs>> }

\* the number of recipes aggregated
NAggRecipes == 2

\* a plain thesaurus
LexPlain ==
    [stopwords |-> {w_cup},
     word_synonyms |-> (w_lemon :> w_lime),
     phrase_synonyms |-> (s_hamEgg :> PyStr(w_ham))]

\* a word synonym with a value of two words
LexMulti ==
    [stopwords |-> {w_cup},
     word_synonyms |-> (w_lemon :> s_fishLime),
     phrase_synonyms |-> <<>>]

\* a phrase that stands for a list of ingredients, one of them empty
LexList ==
    [stopwords |-> {w_cup},
     word_synonyms |-> (w_lemon :> w_lime),
     phrase_synonyms |-> (s_hamEgg :> PyList(<<w_ham, w_egg, <<>> >>))]

\* a chained word synonym: the value of one entry is the key of another
LexChain ==
    [stopwords |-> {w_cup},
     word_synonyms |-> (w_lemon :> w_lime) @@ (w_lime :> w_yam),
     phrase_synonyms |-> <<>>]

\* entries whose value is empty or a single space
LexBlank ==
    [stopwords |-> {w_cup},
     word_synonyms |-> (w_ham :> s_blank),
     phrase_synonyms |-> (w_lime :> PyStr(s_blank)) @@ (w_fish :> PyStr(<<>>))]

AggLexicons == {LexPlain, LexMulti, LexList, LexChain, LexBlank}

\* the frame after dropna, no row cleaned yet
AggFrame(lists) ==
    [i \in 1..Len(lists) |->
        [name |-> i, ingredients |-> Present(lists[i]),
         cleaned |-> FALSE, cleaned_ingredients |-> <<>>]]

InitAgg ==
    /\ Lexicon \in AggLexicons
    /\ \E lists \in [1..NAggRecipes -> AggRawLists] : recipe_df = AggFrame(lists)
    /\ reduced_df = <<>>
    /\ counts = <<>>
    /\ rare_ingredients = {}
    /\ rerun = [i \in 1..NAggRecipes |-> [done |-> FALSE, cleaned_ingredients |-> <<>>]]
    /\ min_ingredient = MIN_INGREDIENT
    /\ max_ingredient = MAX_INGREDIENT
    /\ pc = "clean"

\* the call of clean_ingredients for row i
CleanRow(i) ==
    /\ pc = "clean"
    /\ ~recipe_df[i].cleaned
    /\ recipe_df' = [recipe_df EXCEPT ![i] = CleanedRow(Lexicon, recipe_df[i])]
    /\ UNCHANGED <<Lexicon, reduced_df, counts, rare_ingredients, rerun,
                 min_ingredient, max_ingredient, pc>>

\* clean_ingredients called on the cleaned_ingredients of row i
RerunRow(i) ==
    /\ pc = "clean"
    /\ recipe_df[i].cleaned
    /\ ~rerun[i].done
    /\ rerun' = [rerun EXCEPT ![i] =
                    [done |-> TRUE,
                     cleaned_ingredients |->
                        clean_ingredients(Lexicon, recipe_df[i].cleaned_ingredients)]]
    /\ UNCHANGED <<Lexicon, recipe_df, reduced_df, counts, rare_ingredients,
                 min_ingredient, max_ingredient, pc>>

NextAgg ==
    \/ \E i \in 1..Len(recipe_df) : CleanRow(i)
    \/ \E i \in 1..Len(recipe_df) : RerunRow(i)

SpecAgg == InitAgg /\ [][NextAgg]_vars

-----------------------------------------------------------------------------
(* Properties of the aggregation                                           *)

\* C2: no cleaned_ingredients contains an empty or a whitespace-only string, whatever
\* the dictionaries hold.
C2_NoBlankToken ==
    \A r \in Rows(recipe_df) : \A ing \in SetOf(r.cleaned_ingredients) :
        Strip(ing) # <<>>

\* the strings of the ingredient lists
AggStrings == UNION {SetOf(l) : l \in AggRawLists}

\* the tokens the tagger is given
AggVocabulary ==
    UNION {SetOf(Tokenize(Strip(Lower(FirstOption(NoParenthesis(s)))))) :
              s \in AggStrings}

\* the words the word-level stages can put into a phrase
EmittedWords(L) ==
    UNION {SetOf(Split(L.word_synonyms[k])) : k \in DOMAIN L.word_synonyms}
    \cup {Lemma(t) : t \in {v \in AggVocabulary :
                              /\ ValidNoun(v)
                              /\ Lemma(v) \notin L.stopwords
                              /\ Lemma(v) \notin DOMAIN L.word_synonyms}}

\* the strings a phrase entry can put into cleaned_ingredients
PhraseValues(L) ==
    UNION {LET v == L.phrase_synonyms[k]
           IN  IF v.list THEN SetOf(v.items) ELSE {v.str} :
           k \in DOMAIN L.phrase_synonyms} \ {<<>>}

\* the dictionaries are closed on canonical forms: each word the word-level stages
\* emit is alphabetic, is not "or" and comes out of them unchanged, and each phrase
\* value comes out of preprocess_ingredient unchanged
Closed(L) ==
    /\ \A x \in EmittedWords(L) : x # w_or /\ IsAlpha(x) /\ Unique(L, x) = x
    /\ \A v \in PhraseValues(L) : preprocess_ingredient(L, v) = PyStr(v)

\* no value of the thesauri is empty or whitespace only
NoBlankValues(L) ==
    /\ \A k \in DOMAIN L.word_synonyms : Strip(L.word_synonyms[k]) # <<>>
    /\ \A k \in DOMAIN L.phrase_synonyms :
          LET v == L.phrase_synonyms[k]
          IN  IF v.list THEN \A e \in SetOf(v.items) : Strip(e) # <<>>
              ELSE Strip(v.str) # <<>>

\* C3 as stated: clean_ingredients run on a recipe's own cleaned_ingredients yields
\* the same set, for every dictionary (taken here on the dictionaries without a blank
\* value, where the blank tokens of C2 play no part).
C3_Idempotent ==
    \A i \in 1..Len(rerun) :
        (rerun[i].done /\ NoBlankValues(Lexicon)) =>
            SetOf(rerun[i].cleaned_ingredients) = SetOf(recipe_df[i].cleaned_ingredients)

\* C3 amended: clean_ingredients run on a recipe's own cleaned_ingredients yields the
\* same set when the dictionaries are closed on canonical forms.
C3_IdempotentWhenClosed ==
    \A i \in 1..Len(rerun) :
        (rerun[i].done /\ Closed(Lexicon)) =>
            SetOf(rerun[i].cleaned_ingredients) = SetOf(recipe_df[i].cleaned_ingredients)

\* a second run under closed dictionaries on a result of several ingredients, one
\* of them a phrase of two words
C3_Witness ==
    \E i \in 1..Len(rerun) :
        /\ rerun[i].done
        /\ Closed(Lexicon)
        /\ Len(recipe_df[i].cleaned_ingredients) >= 2
        /\ \E ing \in SetOf(recipe_df[i].cleaned_ingredients) : Len(Split(ing)) >= 2

\* the strings preprocess_ingredient yields for the ingredient lines of a row
OwnTokens(L, row) ==
    UNION {LET c == preprocess_ingredient(L, row.ingredients.val[k])
           IN  IF c.list THEN SetOf(c.items) ELSE {c.str} :
           k \in 1..Len(row.ingredients.val)}

\* a cleaned row holds only what its own ingredient lines yield, and rows with the
\* same ingredient lines hold the same cleaned_ingredients
OwnInputOnly ==
    /\ \A r \in Rows(recipe_df) :
          SetOf(r.cleaned_ingredients) \subseteq OwnTokens(Lexicon, r)
    /\ \A r1, r2 \in Rows(recipe_df) :
          (r1.cleaned /\ r2.cleaned /\ r1.ingredients = r2.ingredients)
              => r1.cleaned_ingredients = r2.cleaned_ingredients

\* a step leaves the dictionaries, the ingredient lines and every row already
\* cleaned as they are, and writes at most one row
OwnOutputOnly ==
    /\ Lexicon' = Lexicon
    /\ Len(recipe_df') = Len(recipe_df)
    /\ \A i \in 1..Len(recipe_df) :
          /\ recipe_df'[i].ingredients = recipe_df[i].ingredients
          /\ recipe_df[i].cleaned => recipe_df'[i] = recipe_df[i]
    /\ Cardinality({i \in 1..Len(recipe_df) : recipe_df'[i] # recipe_df[i]}) <= 1

\* C4: in whatever order the recipes are cleaned, a recipe's cleaned_ingredients is
\* decided by the dictionaries and its own ingredient lines: cleaning a recipe
\* reads nothing else and writes only that recipe's cleaned_ingredients.
C4_OrderIndependent == []OwnInputOnly /\ [][OwnOutputOnly]_vars

\* every recipe is cleaned, two recipes with different ingredient lines got
\* different, non-empty results
C4_Witness ==
    /\ Len(recipe_df) >= 2
    /\ \A r \in Rows(recipe_df) : r.cleaned
    /\ \E r1, r2 \in Rows(recipe_df) :
          /\ r1.ingredients # r2.ingredients
          /\ r1.cleaned_ingredients # <<>>
          /\ r2.cleaned_ingredients # <<>>
          /\ SetOf(r1.cleaned_ingredients) \cap SetOf(r2.cleaned_ingredients) = {}

-----------------------------------------------------------------------------
(* The notebook run with other values of MIN_INGREDIENT and MAX_INGREDIENT  *)

\* the values the two assignments of the size cell are edited to
IngredientLimits == {MIN_INGREDIENT - 1, MIN_INGREDIENT, MAX_INGREDIENT, MAX_INGREDIENT + 1}

\* the corpora holding the first template at least MIN_FREQUENCY times
ConfigCorpora == {c \in Corpora : c[MIN_FREQUENCY] = 1}

InitConfig ==
    /\ Lexicon = CorpusLexicon
    /\ \E c \in ConfigCorpora : recipe_df = DataFrame(c)
    /\ reduced_df = <<>>
    /\ counts = <<>>
    /\ rare_ingredients = {}
    /\ rerun = <<>>
    /\ min_ingredient \in IngredientLimits
    /\ max_ingredient \in IngredientLimits
    /\ pc = "dropna"

SpecConfig == InitConfig /\ [][Next]_vars

\* C11: when MIN_INGREDIENT > MAX_INGREDIENT the run stops with an error before the
\* size filter is applied, so the notebook never gets past the size cell.
C11_InvertedBoundsStop == (min_ingredient > max_ingredient) => pc # "done"

-----------------------------------------------------------------------------
(* The association notebook: one column of recipe_df per stage             *)

\* re.sub(r" ?\([^)]+\)", "", s) from index i on: a match is an optional space, "(",
\* one or more characters other than ")", and ")"; matches are cut left to right
RECURSIVE RemoveParenthesesFrom(_, _)
RemoveParenthesesFrom(s, i) ==
    IF i > Len(s) THEN <<>>
    ELSE LET open  == IF s[i] = " " /\ i < Len(s) /\ s[i + 1] = "(" THEN i + 1 ELSE i
             close == IF s[open] = "(" THEN Find(s, <<")">>, open + 1) ELSE 0
         IN  IF close > open + 1 THEN RemoveParenthesesFrom(s, close + 1)
             ELSE <<s[i]>> \o RemoveParenthesesFrom(s, i + 1)

remove_parentheses(ingredient) == RemoveParenthesesFrom(ingredient, 1)

\* ingredient.split(" or ", 1)[-1]: what follows the first " or "
select_first_option_last(ingredient) ==
    LET at == Find(ingredient, <<" ", "o", "r", " ">>, 1)
    IN  IF at = 0 THEN ingredient
        ELSE SubSeq(ingredient, at + Len(<<" ", "o", "r", " ">>), Len(ingredient))

\* ingredient.split(" or ")[0]
select_first_option(ingredient) ==
    LET at == Find(ingredient, <<" ", "o", "r", " ">>, 1)
    IN  IF at = 0 THEN ingredient ELSE SubSeq(ingredient, 1, at - 1)

clean_ingredient(ingredient) ==
    Strip(Lower(select_first_option(remove_parentheses(ingredient))))

\* the "if (x := f(i))" of the column lambdas: the results that are not the empty str
Truthy(xs) == SelectSeq(xs, LAMBDA x : x # <<>>)

\* token.pos_ after correct_noun_pos_tags
correct_noun_pos_tags(w) == IF w \in outliers THEN "NOUN" ELSE Pos(w)

\* the loop of lemmatize_nouns without its "not token.is_stop"
RECURSIVE NounLemmas_stop(_)
NounLemmas_stop(tokens) ==
    IF tokens = <<>> THEN <<>>
    ELSE (IF IsAlpha(tokens[1]) /\ correct_noun_pos_tags(tokens[1]) \in {"NOUN", "PROPN"}
          THEN <<Lemma(tokens[1])>> ELSE <<>>)
         \o NounLemmas_stop(Tail(tokens))

\* the loop of lemmatize_nouns: lemmas after the tokens given
RECURSIVE NounLemmas(_)
NounLemmas(tokens) ==
    IF tokens = <<>> THEN <<>>
    ELSE (IF /\ IsAlpha(tokens[1])
             /\ ~IsStop(tokens[1])
             /\ correct_noun_pos_tags(tokens[1]) \in {"NOUN", "PROPN"}
          THEN <<Lemma(tokens[1])>> ELSE <<>>)
         \o NounLemmas(Tail(tokens))

lemmatize_nouns(ingredient) == Join(NounLemmas(Tokenize(ingredient)))

standardize_at_word_level(L, ingredient) ==
    LET words == Split(ingredient)
    IN  Join([i \in 1..Len(words) |-> Get(L.thesaurus, words[i], words[i])])

standardize_at_phrase_level(L, ingredient) == Get(L.thesaurus, ingredient, ingredient)

\* break_down_ingredient looking each component up once more
break_down_ingredient_deep(L, ingredient) ==
    LET components == Get(L.ingredient_components, ingredient, PyStr(ingredient))
        again(c)   == Get(L.ingredient_components, c, PyStr(c))
    IN  IF ~components.list THEN <<again(components.str).str>>
        ELSE [i \in 1..Len(components.items) |-> again(components.items[i]).str]

break_down_ingredient(L, ingredient) ==
    LET components == Get(L.ingredient_components, ingredient, PyStr(ingredient))
    IN  IF ~components.list THEN <<components.str>> ELSE components.items

\* [component for i in x for component in break_down_ingredient(i)]
RECURSIVE Components(_, _)
Components(L, x) ==
    IF x = <<>> THEN <<>>
    ELSE break_down_ingredient(L, x[1]) \o Components(L, Tail(x))

-----------------------------------------------------------------------------
(* The recipes and dictionaries the association notebook is run on         *)

s_saltEmpty      == <<"s", "a", "l", "t", " ", "(", ")">>
s_topBaking      == <<"t", "o", "p", " ", "b", "a", "k", "i", "n", "g", " ",
                      "f", "r", "i", "e", "d", " ", "h", "a", "m">>
s_lemonHamYam    == <<"l", "e", "m", "o", "n", " ", "h", "a", "m", " ", "y", "a", "m">>
s_LimeOrEggOrFish == <<"L", "i", "m", "e", " ", "(", "b", "i", "g", ")", " ", "(", "B", ")",
                      " ", "o", "r", " ", "e", "g", "g", " ", "o", "r", " ",
                      "f", "i", "s", "h">>
s_hamOREgg       == <<"h", "a", "m", " ", "O", "R", " ", "e", "g", "g">>
s_limeYam        == <<"l", "i", "m", "e", " ", "y", "a", "m">>

\* the raw ingredient strings of a recipe
StageStrings ==
    {s_LimesOrLemon, s_saltEmpty, s_cupLimes, s_topBaking, s_hamEggs, s_lemonHamYam,
     s_LimeOrEggOrFish, s_hamOREgg, s_the2}

\* the largest number of ingredients of the recipe
NStageIngredients == 2

\* the ingredient lists of up to n strings
RECURSIVE ListsUpTo(_)
ListsUpTo(n) ==
    IF n = 0 THEN {<<>>}
    ELSE LET shorter == ListsUpTo(n - 1)
         IN  shorter \cup {Append(l, x) : l \in {m \in shorter : Len(m) = n - 1},
                                          x \in StageStrings}

\* thesaurus entries used at word and at phrase level, components of both kinds
StagePlain ==
    [stopwords |-> {w_cup},
     thesaurus |-> (w_lemon :> w_lime) @@ (s_hamEgg :> w_ham),
     ingredient_components |->
        (w_ham :> PyStr(w_pork)) @@ (w_lime :> PyList(<<s_limeYam, w_ham>>))]

\* two words with the same standard name, and a standard name of two words
StageMulti ==
    [stopwords |-> {w_cup},
     thesaurus |-> (w_lemon :> w_lime) @@ (w_yam :> w_lime) @@ (w_egg :> s_hamEgg),
     ingredient_components |-> (s_hamEgg :> PyList(<<>>))]

\* entries whose value is empty or a single space
StageBlank ==
    [stopwords |-> {w_cup},
     thesaurus |-> (w_ham :> s_blank) @@ (w_egg :> <<>>) @@ (w_salt :> <<>>),
     ingredient_components |->
        (w_lime :> PyStr(<<>>)) @@ (s_hamEgg :> PyList(<<w_ham, <<>> >>))]

StageLexicons == {StagePlain, StageMulti, StageBlank}

\* the names of the stage columns, in the order the cells add them
StageColumns ==
    <<"cleaned", "lemmatized", "filtered", "standardized_word", "unique",
      "standardized_phrase", "components">>

InitStages ==
    /\ Lexicon \in StageLexicons
    /\ \E l \in ListsUpTo(NStageIngredients) :
          \E cell \in {Missing, Present(l)} :
             recipe_df = <<[name |-> 1, ingredients |-> cell]>>
    /\ reduced_df = <<>>
    /\ counts = <<>>
    /\ rare_ingredients = {}
    /\ rerun = <<>>
    /\ min_ingredient = MIN_INGREDIENT
    /\ max_ingredient = MAX_INGREDIENT
    /\ pc = "drop_empty_ingredients"

\* the lambdas of the column cells: the stage applied to each item of a row's list,
\* the results that are not empty kept
CleanedList(x) == Truthy([i \in 1..Len(x) |-> clean_ingredient(x[i])])

LemmatizedList(x) == Truthy([i \in 1..Len(x) |-> lemmatize_nouns(x[i])])

FilteredList(L, x) == Truthy([i \in 1..Len(x) |-> filter_stopwords(L, x[i])])

StandardizedWordList(L, x) ==
    Truthy([i \in 1..Len(x) |-> standardize_at_word_level(L, x[i])])

UniqueList(x) == Truthy([i \in 1..Len(x) |-> remove_duplicates(x[i])])

StandardizedPhraseList(L, x) ==
    Truthy([i \in 1..Len(x) |-> standardize_at_phrase_level(L, x[i])])

\* recipe_df[col] = values: the column col added to every row
AddColumn(df, col, values) == [r \in 1..Len(df) |-> (col :> values[r]) @@ df[r]]

\* recipe_df = drop_empty_ingredients(recipe_df); the ingredients cell of a row that
\* is kept is a list
DropEmptyIngredients ==
    /\ pc = "drop_empty_ingredients"
    /\ recipe_df' = [r \in 1..Len(DropNa(recipe_df)) |->
                        [name |-> DropNa(recipe_df)[r].name,
                         ingredients |-> DropNa(recipe_df)[r].ingredients.val]]
    /\ pc' = "cleaned"
    /\ UNCHANGED <<Lexicon, reduced_df, counts, rare_ingredients, rerun,
                   min_ingredient, max_ingredient>>

\* recipe_df["cleaned"]
CleanIngredients ==
    /\ pc = "cleaned"
    /\ recipe_df' = AddColumn(recipe_df, "cleaned",
                       [r \in 1..Len(recipe_df) |-> CleanedList(recipe_df[r].ingredients)])
    /\ pc' = "lemmatized"
    /\ UNCHANGED <<Lexicon, reduced_df, counts, rare_ingredients, rerun,
                   min_ingredient, max_ingredient>>

\* recipe_df["lemmatized"]
LemmatizeNouns ==
    /\ pc = "lemmatized"
    /\ recipe_df' = AddColumn(recipe_df, "lemmatized",
                       [r \in 1..Len(recipe_df) |-> LemmatizedList(recipe_df[r].cleaned)])
    /\ pc' = "filtered"
    /\ UNCHANGED <<Lexicon, reduced_df, counts, rare_ingredients, rerun,
                   min_ingredient, max_ingredient>>

\* recipe_df["filtered"]
FilterStopwords ==
    /\ pc = "filtered"
    /\ recipe_df' = AddColumn(recipe_df, "filtered",
                       [r \in 1..Len(recipe_df) |->
                           FilteredList(Lexicon, recipe_df[r].lemmatized)])
    /\ pc' = "standardized_word"
    /\ UNCHANGED <<Lexicon, reduced_df, counts, rare_ingredients, rerun,
                   min_ingredient, max_ingredient>>

\* recipe_df["standardized_word"]
StandardizeWords ==
    /\ pc = "standardized_word"
    /\ recipe_df' = AddColumn(recipe_df, "standardized_word",
                       [r \in 1..Len(recipe_df) |->
                           StandardizedWordList(Lexicon, recipe_df[r].filtered)])
    /\ pc' = "unique"
    /\ UNCHANGED <<Lexicon, reduced_df, counts, rare_ingredients, rerun,
                   min_ingredient, max_ingredient>>

\* recipe_df["unique"]
RemoveDuplicates ==
    /\ pc = "unique"
    /\ recipe_df' = AddColumn(recipe_df, "unique",
                       [r \in 1..Len(recipe_df) |->
                           UniqueList(recipe_df[r].standardized_word)])
    /\ pc' = "standardized_phrase"
    /\ UNCHANGED <<Lexicon, reduced_df, counts, rare_ingredients, rerun,
                   min_ingredient, max_ingredient>>

\* recipe_df["standardized_phrase"]
StandardizePhrases ==
    /\ pc = "standardized_phrase"
    /\ recipe_df' = AddColumn(recipe_df, "standardized_phrase",
                       [r \in 1..Len(recipe_df) |->
                           StandardizedPhraseList(Lexicon, recipe_df[r].unique)])
    /\ pc' = "components"
    /\ UNCHANGED <<Lexicon, reduced_df, counts, rare_ingredients, rerun,
                   min_ingredient, max_ingredient>>

\* recipe_df["components"]
BreakDown ==
    /\ pc = "components"
    /\ recipe_df' =
          AddColumn(recipe_df, "components",
                    [r \in 1..Len(recipe_df) |->
                        Components(Lexicon, recipe_df[r].standardized_phrase)])
    /\ pc' = "done"
    /\ UNCHANGED <<Lexicon, reduced_df, counts, rare_ingredients, rerun,
                   min_ingredient, max_ingredient>>

NextStages ==
    \/ DropEmptyIngredients
    \/ CleanIngredients
    \/ LemmatizeNouns
    \/ FilterStopwords
    \/ StandardizeWords
    \/ RemoveDuplicates
    \/ StandardizePhrases
    \/ BreakDown

SpecStages == InitStages /\ [][NextStages]_vars

\* the rows of the frame that have the column col
RowsWith(col) == {r \in Rows(recipe_df) : col \in DOMAIN r}

-----------------------------------------------------------------------------
(* Properties of the stage columns                                         *)

\* the number of characters c among the first k characters of s
CountChar(s, c, k) == Cardinality({j \in 1..k : s[j] = c})

\* the parentheses of s are balanced and not nested
WellFormed(s) ==
    /\ CountChar(s, "(", Len(s)) = CountChar(s, ")", Len(s))
    /\ \A k \in 1..Len(s) :
          LET depth == CountChar(s, "(", k) - CountChar(s, ")", k)
          IN  depth \in {0, 1}

\* character k of a well-formed s is part of a parenthesized substring
InGroup(s, k) == CountChar(s, "(", k) > CountChar(s, ")", k - 1)

\* character k of a well-formed s is the space directly before a "("
LeadingSpace(s, k) == s[k] = " " /\ ~InGroup(s, k) /\ k < Len(s) /\ s[k + 1] = "("

\* the characters of s from index k on that are in no parenthesized substring and
\* are not the space directly before one
RECURSIVE OutsideGroups(_, _)
OutsideGroups(s, k) ==
    IF k > Len(s) THEN <<>>
    ELSE (IF InGroup(s, k) \/ LeadingSpace(s, k) THEN <<>> ELSE <<s[k]>>)
         \o OutsideGroups(s, k + 1)

HasParenthesis(s) == \E k \in 1..Len(s) : s[k] \in {"(", ")"}

\* C12: for an ingredient with well-formed, non-nested parentheses the cleaned text
\* holds no "(" and no ")", and remove_parentheses returns exactly the characters
\* outside the parenthesized substrings without the space directly before each "(".
C12_ParenthesesRemoved ==
    \A r \in RowsWith("cleaned") :
        \A k \in 1..Len(r.ingredients) :
            WellFormed(r.ingredients[k]) =>
                /\ ~HasParenthesis(clean_ingredient(r.ingredients[k]))
                /\ remove_parentheses(r.ingredients[k]) = OutsideGroups(r.ingredients[k], 1)

s_hamOrEgg == <<"h", "a", "m", " ", "o", "r", " ", "e", "g", "g">>

\* the indices at which the delimiter " or " occurs in s
DelimiterAt(s) == {j \in 1..Len(s) : OccursAt(s, <<" ", "o", "r", " ">>, j)}

\* the part of s before the first " or ", all of s when there is none
BeforeDelimiter(s) ==
    IF DelimiterAt(s) = {} THEN s
    ELSE SubSeq(s, 1, (CHOOSE j \in DelimiterAt(s) : \A k \in DelimiterAt(s) : j <= k) - 1)

\* s has no upper-case character and no space at either end
LowerTrimmed(s) ==
    /\ \A k \in 1..Len(s) : s[k] \notin UpperCase
    /\ s # <<>> => (s[1] # " " /\ s[Len(s)] # " ")

\* C13: the cleaned text of an ingredient is the lower-cased, trimmed part of its
\* parenthesis-stripped text before the first " or " (all of it when there is no
\* " or "), in clean_ingredient and in preprocess_ingredient alike, and the cleaned
\* column holds these texts, the empty ones left out.
C13_FirstOption ==
    \A r \in RowsWith("cleaned") :
        /\ \A k \in 1..Len(r.ingredients) :
              LET raw == r.ingredients[k]
              IN  /\ clean_ingredient(raw)
                        = Strip(Lower(BeforeDelimiter(remove_parentheses(raw))))
                  /\ LowerTrimmed(clean_ingredient(raw))
                  /\ Strip(Lower(FirstOption(NoParenthesis(raw))))
                        = Strip(Lower(BeforeDelimiter(NoParenthesis(raw))))
        /\ r.cleaned = Truthy([k \in 1..Len(r.ingredients) |->
                                  Strip(Lower(BeforeDelimiter(
                                      remove_parentheses(r.ingredients[k]))))])

\* the cleaned column of a recipe with an ingredient of three alternatives, the
\* delimiter of the first left by the removal of two parenthesized substrings, and an
\* ingredient without the delimiter
C13_Witness ==
    \E r \in RowsWith("cleaned") :
        /\ r.ingredients = <<s_LimeOrEggOrFish, s_hamOREgg>>
        /\ Cardinality(DelimiterAt(remove_parentheses(s_LimeOrEggOrFish))) > 1
        /\ DelimiterAt(s_LimeOrEggOrFish) # DelimiterAt(remove_parentheses(s_LimeOrEggOrFish))
        /\ r.cleaned = <<w_lime, s_hamOrEgg>>

\* the concatenation of the lists of a list of lists
RECURSIVE Flatten(_)
Flatten(lists) == IF lists = <<>> THEN <<>> ELSE lists[1] \o Flatten(Tail(lists))

\* what the claim gives for one phrase: the phrase itself when it is no key, the one
\* mapped string, or the mapped sequence as it is
Expansion(L, phrase) ==
    IF phrase \notin DOMAIN L.ingredient_components THEN <<phrase>>
    ELSE IF ~L.ingredient_components[phrase].list
         THEN <<L.ingredient_components[phrase].str>>
         ELSE L.ingredient_components[phrase].items

\* C14: the components column is, phrase by phrase of standardized_phrase, the phrase
\* itself when it is no key of ingredient_components, the mapped string when it maps to
\* a string, and the mapped sequence when it maps to a sequence; a component of a
\* mapped sequence stays in the column as it is, also when it is itself a key.
C14_OneLevel ==
    \A r \in RowsWith("components") :
        /\ r.components =
              Flatten([k \in 1..Len(r.standardized_phrase) |->
                          Expansion(Lexicon, r.standardized_phrase[k])])
        /\ \A k \in 1..Len(r.standardized_phrase) :
              LET phrase == r.standardized_phrase[k]
              IN  (phrase \in DOMAIN Lexicon.ingredient_components
                     /\ Lexicon.ingredient_components[phrase].list)
                  => \A c \in Rows(Lexicon.ingredient_components[phrase].items) :
                        c \in Rows(r.components)

\* a recipe with a phrase mapped to a sequence one of whose components is itself a
\* key, and a phrase mapped to a string: the key among the components is not expanded
C14_Witness ==
    \E r \in RowsWith("components") :
        /\ r.standardized_phrase = <<w_lime, w_ham>>
        /\ Lexicon.ingredient_components[w_lime].list
        /\ w_ham \in Rows(Lexicon.ingredient_components[w_lime].items)
        /\ ~Lexicon.ingredient_components[w_ham].list
        /\ r.components = <<s_limeYam, w_ham, w_pork>>

\* C15: no stage column of a recipe holds an empty string, whatever the dictionaries.
C15_NoEmptyString ==
    \A r \in Rows(recipe_df) :
        \A c \in 1..Len(StageColumns) :
            StageColumns[c] \in DOMAIN r =>
                \A k \in 1..Len(r[StageColumns[c]]) : r[StageColumns[c]][k] # <<>>

s_bakeHam == <<"b", "a", "k", "e", " ", "h", "a", "m">>

\* the tokens the claim retains: alphabetic, no generic stop word, and tagged NOUN or
\* PROPN once the tag of an outlier is NOUN
Retained(w) ==
    /\ IsAlpha(w)
    /\ ~IsStop(w)
    /\ (w \in outliers \/ Pos(w) \in {"NOUN", "PROPN"})

\* the lemmas of the retained tokens of text, in the order of the tokens
RetainedLemmas(text) ==
    LET retained == SelectSeq(Tokenize(text), Retained)
    IN  [k \in 1..Len(retained) |-> Lemma(retained[k])]

\* C16: the lemmatized text of an ingredient is the lemmas of exactly its alphabetic,
\* non-stop tokens tagged NOUN or PROPN after the override, joined by single spaces in
\* token order, in lemmatize_nouns and in lemmatize_valid_nouns alike; no word of it
\* comes from a token that is not alphabetic or is a generic stop word, an outlier
\* included; the lemmatized column holds these texts, the empty ones left out.
C16_RetainedLemmas ==
    \A r \in RowsWith("lemmatized") :
        /\ \A k \in 1..Len(r.cleaned) :
              LET text == r.cleaned[k]
              IN  /\ Split(lemmatize_nouns(text)) = RetainedLemmas(text)
                  /\ lemmatize_nouns(text) = Join(Split(lemmatize_nouns(text)))
                  /\ lemmatize_valid_nouns(text) = lemmatize_nouns(text)
                  /\ \A w \in Rows(Split(lemmatize_nouns(text))) :
                        \E t \in Rows(Tokenize(text)) :
                            Lemma(t) = w /\ IsAlpha(t) /\ ~IsStop(t)
                  /\ Len(Split(lemmatize_nouns(text)))
                        <= Len(SelectSeq(Tokenize(text),
                                         LAMBDA t : IsAlpha(t) /\ ~IsStop(t)))
        /\ r.lemmatized = Truthy([k \in 1..Len(r.cleaned) |-> Join(RetainedLemmas(r.cleaned[k]))])

\* an ingredient with a stop word tagged NOUN, an outlier tagged VERB, a verb and a
\* proper noun has been lemmatized: the outlier and the proper noun are kept
C16_Witness ==
    \E r \in RowsWith("lemmatized") :
        /\ r.cleaned = <<s_topBaking>>
        /\ IsStop(w_top) /\ Pos(w_top) = "NOUN"
        /\ w_baking \in outliers /\ Pos(w_baking) = "VERB"
        /\ Pos(w_fried) = "VERB"
        /\ Pos(w_ham) = "PROPN"
        /\ r.lemmatized = <<s_bakeHam>>

s_limeHamLime == <<"l", "i", "m", "e", " ", "h", "a", "m", " ", "l", "i", "m", "e">>
s_hamHamEgg   == <<"h", "a", "m", " ", "h", "a", "m", " ", "e", "g", "g">>
s_limeHam     == <<"l", "i", "m", "e", " ", "h", "a", "m">>

\* no word occurs twice in words
NoRepeat(words) ==
    \A i, j \in 1..Len(words) : words[i] = words[j] => i = j

\* the words of words that no earlier word equals, in order
FirstOccurrences(words) ==
    LET first == {i \in 1..Len(words) : \A j \in 1..(i - 1) : words[j] # words[i]}
        rank(i) == Cardinality({j \in first : j <= i})
    IN  [n \in 1..Cardinality(first) |-> words[CHOOSE i \in first : rank(i) = n]]

\* the dictionaries of the clustering notebook with the thesaurus as word_synonyms
AsWordSynonyms(L) ==
    [stopwords |-> L.stopwords, word_synonyms |-> L.thesaurus, phrase_synonyms |-> <<>>]

\* C17: the unique column holds, for each text of standardized_word, its distinct
\* words once each in the order of their first occurrence (the empty results left
\* out); so no text handed to the phrase-level lookup, in standardize_at_phrase_level
\* or in preprocess_ingredient, has a repeated word, whatever the thesaurus maps to.
C17_NoRepeatedWord ==
    /\ \A r \in RowsWith("unique") :
          /\ r.unique = Truthy([k \in 1..Len(r.standardized_word) |->
                                  Join(FirstOccurrences(Split(r.standardized_word[k])))])
          /\ \A k \in 1..Len(r.unique) :
                /\ NoRepeat(Split(r.unique[k]))
                /\ r.unique[k] = Join(Split(r.unique[k]))
    /\ \A r \in RowsWith("cleaned") :
          \A k \in 1..Len(r.ingredients) :
              NoRepeat(Split(Unique(AsWordSynonyms(Lexicon), r.ingredients[k])))

\* the unique column of a recipe in which two words got the same standard name and a
\* word got a standard name of two words: each text had a repeated word before
C17_Witness ==
    \E r \in RowsWith("standardized_phrase") :
        /\ r.filtered = <<s_lemonHamYam, s_hamEgg>>
        /\ r.standardized_word = <<s_limeHamLime, s_hamHamEgg>>
        /\ r.unique = <<s_limeHam, s_hamEgg>>

-----------------------------------------------------------------------------
(* The two removals of the corpus filter as one                            *)

\* the one filter of the claim: an ingredient goes iff it is in at most MIN_FREQUENCY
\* recipes of the unfiltered corpus or is denylisted
SingleFilter(ingredients) ==
    SelectSeq(ingredients,
              LAMBDA i : ~(RecipeCount(i) <= MIN_FREQUENCY \/ i \in ingredients_to_remove))

\* C18: after the two removals every recipe holds exactly what the single filter
\* "count <= MIN_FREQUENCY or denylisted" leaves of its cleaned_ingredients, no recipe
\* is lost by the removals, and the removals applied in the other order, with the same
\* counts, leave the same.
C18_TwoStepIsSingleFilter ==
    PhaseBDone =>
        /\ pc = "size" => Len(reduced_df) = Len(recipe_df)
        /\ \A r \in Rows(reduced_df) :
              /\ r.cleaned_ingredients = SingleFilter(Source(r).cleaned_ingredients)
              /\ r.cleaned_ingredients =
                    remove_common_ingredients(
                        remove_rare_ingredients(RareIndex(ValueCounts(Explode(recipe_df))),
                                                Source(r).cleaned_ingredients))

\* both removals have run on a recipe holding a denylisted frequent ingredient, a rare
\* one that is not denylisted and one that stays, in a corpus with a recipe holding
\* an ingredient both denylisted and rare
C18_Witness ==
    /\ pc = "size"
    /\ \E r \in Rows(reduced_df) :
          /\ \E i \in SetOf(Source(r).cleaned_ingredients) :
                i \in ingredients_to_remove /\ RecipeCount(i) > MIN_FREQUENCY
          /\ \E i \in SetOf(Source(r).cleaned_ingredients) :
                i \notin ingredients_to_remove /\ RecipeCount(i) <= MIN_FREQUENCY
          /\ \E i \in SetOf(Source(r).cleaned_ingredients) :
                i \in SetOf(r.cleaned_ingredients)
    /\ \E r \in Rows(recipe_df) : \E i \in SetOf(r.cleaned_ingredients) :
          i \in ingredients_to_remove /\ RecipeCount(i) <= MIN_FREQUENCY

====
